---- MODULE Spec2Model ----
(***************************************************************************)
(* Model of the CV credential extraction engine of app.py: whitespace      *)
(* normalisation, the cut of the "FORMACION ACADEMICA" section, the split  *)
(* into entries, the type and completion classification of each entry and  *)
(* the deduplicated counts per credential type.                            *)
(*                                                                         *)
(* Text is modelled at two grains.  normalize_spaces is modelled on        *)
(* sequences of characters.  Everything downstream is modelled on          *)
(* sequences of lines, a line being a sequence of words: every regular     *)
(* expression of the source that is delimited by \b or by white space is   *)
(* a search for a run of whole words, compared case-insensitively.         *)
(***************************************************************************)
EXTENDS Integers, Sequences, FiniteSets, TLC

VARIABLES
    pc,          \* position in the script run (app.py 365-377)
    upload,      \* the uploaded CV by its sections: before, formation, after
    raw_text,    \* the text extracted from the upload: a sequence of lines
    form_block,  \* extract_formacion_academica_block(raw_text)
    entries,     \* split_entries(form_block)
    idx,         \* position of the loop of counts_from_formacion (1-based)
    seen,        \* set of dedup keys already counted
    counts,      \* the dictionary counts_from_formacion returns
    other,       \* a second CV, uploaded in a run of its own (for comparisons)
    chars,       \* the uploaded text as characters (normalize_spaces view)
    txt          \* normalize_spaces(full_text) inside the extractor, as characters

vars == <<pc, upload, raw_text, form_block, entries, idx, seen, counts, other, chars, txt>>

(***************************************************************************)
(* Bounds of the checked inputs.                                           *)
(***************************************************************************)
MaxLines == 4        \* lines of a block, completion inputs
MaxDedupLines == 4   \* lines of a block, dedup inputs
MaxClassLines == 3   \* lines of a block, classification inputs
MaxPosdocLines == 4  \* lines of a block, postdoctoral inputs
MaxIsoLines == 2     \* lines of the Formation section, isolation inputs
MaxTitles == 8       \* one-line entries offered, many-entries inputs
MaxChars == 5        \* characters of a text, normalisation inputs
MaxSplitLines == 4   \* lines of a block, splitting inputs
MaxNeighbourLines == 4  \* lines of a block, neighbouring-entries inputs
LongTextLen == 1601  \* characters of the long paragraph of the inputs

(***************************************************************************)
(* Words and case folding (re.IGNORECASE, str.lower).                      *)
(***************************************************************************)
\* (word, word.lower()) for every word of the checked inputs that is not
\* already lower case.
LowerPairs ==
    { <<"Doctorado", "doctorado">>, <<"Doctor", "doctor">>,
      <<"Maestría", "maestría">>, <<"Especialista", "especialista">>,
      <<"Profesor", "profesor">>, <<"Abogado", "abogado">>,
      <<"ABOGADO", "abogado">>, <<"Posdoctorado", "posdoctorado">>,
      <<"Posgrado", "posgrado">>, <<"Curso", "curso">>, <<"Año", "año">>,
      <<"Situación", "situación">>, <<"Completo", "completo">>,
      <<"Egresado", "egresado">>, <<"Actualidad", "actualidad">>,
      <<"En", "en">>, <<"Universidad", "universidad">>,
      <<"Nacional", "nacional">>, <<"Cuyo", "cuyo">>,
      <<"Becario", "becario">>, <<"Biología", "biología">>,
      <<"Derecho", "derecho">>, <<"Educación", "educación">>,
      <<"Docencia", "docencia">>, <<"Historia", "historia">>,
      <<"Química", "química">>, <<"Gestión", "gestión">>,
      <<"Inglés", "inglés">>, <<"FORMACION", "formacion">>,
      <<"ACADEMICA", "academica">>, <<"ANTECEDENTES", "antecedentes">>,
      <<"PROYECTOS", "proyectos">>, <<"Proyecto", "proyecto">>,
      <<"Ingeniero", "ingeniero">>, <<"DATOS", "datos">>,
      <<"Física", "física">>, <<"Alfa", "alfa">>,
      <<"Título", "título">>, <<"Licenciado", "licenciado">> }

LowerMap ==
    [w \in {p[1] : p \in LowerPairs} |->
        (CHOOSE p \in LowerPairs : p[1] = w)[2]]

\* str.lower() of one word; words outside the table are already lower case
\* (or are digits and punctuation).
Lower(w) == IF w \in DOMAIN LowerMap THEN LowerMap[w] ELSE w

\* A paragraph of running text without any keyword, longer than both the
\* 1500-character threshold of split_entries and the 1600-character window
\* of RE_POSDOC_ENTRY; it stands for LongTextLen characters.
LongText == "<parrafo>"

WordLen(w) == IF w = LongText THEN LongTextLen ELSE Len(w)

RECURSIVE WordsLen(_)
\* Characters of a run of words written with single separators between them.
WordsLen(ws) ==
    IF ws = <<>> THEN 0
    ELSE WordLen(Head(ws)) + (IF Len(ws) > 1 THEN 1 ELSE 0) + WordsLen(Tail(ws))

RECURSIVE Flatten(_)
\* The words of a text in order: "\n" is white space for every \s of a pattern.
Flatten(lines) ==
    IF lines = <<>> THEN <<>> ELSE Head(lines) \o Flatten(Tail(lines))

RECURSIVE TextLen(_)
\* len("\n".join(lines))
TextLen(lines) ==
    IF lines = <<>> THEN 0
    ELSE WordsLen(Head(lines)) + (IF Len(lines) > 1 THEN 1 ELSE 0)
         + TextLen(Tail(lines))

(***************************************************************************)
(* Regular expressions as searches for runs of whole words.                *)
(***************************************************************************)
\* re.search(pattern, text, re.IGNORECASE) for a pattern that is an
\* alternation of word runs: some run of pats occurs in ws.
Search(pats, ws) ==
    \E p \in pats :
        \E k \in 1..(Len(ws) - Len(p) + 1) :
            \A j \in 1..Len(p) : Lower(ws[k + j - 1]) = p[j]

\* The same search anchored at the first word (a pattern that begins with ^).
StartsWith(pats, ws) ==
    \E p \in pats :
        /\ Len(p) <= Len(ws)
        /\ \A j \in 1..Len(p) : Lower(ws[j]) = p[j]

\* \d{4} and [0-3]?\d/\d{4}: the year and month/year words of the inputs.
YearWords == {"2001", "2002", "2003", "2004", "2005", "2006", "2007", "2008",
              "2009", "2010", "2015", "2019", "03/2015"}

RE_IN_PROGRESS ==
    { <<"actualidad">>, <<"en", "curso">>, <<"cursando">>, <<"actualmente">>,
      <<"vigente">>, <<"en", "desarrollo">>,
      <<"hasta", "la", "actualidad">>, <<"a", "la", "fecha">> }

\* The words before the year of RE_FINISH_YEAR: "A[nñ]o de
\* (finalizaci[oó]n|obtenci[oó]n|graduaci[oó]n) :".
FinishYearPrefix ==
    { <<a, "de", f, ":">> :
        a \in {"año", "ano"},
        f \in {"finalización", "finalizacion", "obtención", "obtencion",
               "graduación", "graduacion"} }

\* Positions in ws where RE_FINISH_YEAR matches (the position of its year).
FinishYearAt(ws) ==
    { k \in 5..Len(ws) :
        /\ ws[k] \in YearWords
        /\ <<Lower(ws[k - 4]), Lower(ws[k - 3]), Lower(ws[k - 2]),
             Lower(ws[k - 1])>> \in FinishYearPrefix }

RE_FINISH_YEAR(ws) == FinishYearAt(ws) # {}

RE_SITUACION_COMPLETO ==
    { <<s, "del", "nivel", ":", "completo">> : s \in {"situación", "situacion"} }

RE_COMPLETION_CUES ==
    { <<"finalizado">>, <<"finalizada">>, <<"egresado">>, <<"egresada">>,
      <<"graduado">>, <<"graduada">>, <<"título", "obtenido">>,
      <<"titulo", "obtenido">>, <<"título", "otorgado">>,
      <<"titulo", "otorgado">>, <<"completo">>, <<"completada">> }

RE_BECARIO_CONTEXT ==
    { <<"becario">>, <<"becaria">>, <<"becarios">>, <<"becarias">>, <<"beca">>,
      <<"dirección">>, <<"direccion">>, <<"codirección">>, <<"codireccion">>,
      <<"co-dirección">>, <<"co-direccion">>, <<"tesista">>,
      <<"investigador/a">>, <<"investigador">> }

\* The undergraduate degree nouns shared by RE_ENTRY_START and classify_entry.
\* The stems (Ingenier, Bioquimic, Medic, ...) are closed by \b in the source,
\* so they match only as whole words: "Ingeniero" and "Ingeniería" do not.
GradoKeywords ==
    { <<"licenciatura">>, <<"licenciado">>, <<"licenciada">>,
      <<"licenciados">>, <<"licenciadas">>, <<"técnica", "universitaria">>,
      <<"tecnica", "universitaria">>, <<"tecnicatura">>, <<"contador">>,
      <<"contadora">>, <<"contaduría">>, <<"contaduria">>, <<"abogado">>,
      <<"abogada">>, <<"ingenier">>, <<"bioquímic">>, <<"bioquimic">>,
      <<"médic">>, <<"medic">>, <<"farmacéutic">>, <<"farmaceutic">>,
      <<"arquitect">>, <<"odontólog">>, <<"odontolog">> }

DoctoradoKeywords ==
    { <<"doctorado">>, <<"doctor", "en">>,
      <<"doctor", "de", "la", "universidad">> }

MaestriaKeywords ==
    { <<"maestría">>, <<"maestria">>, <<"magíster">>, <<"magister">> }

EspecializacionKeywords ==
    { <<"especialización">>, <<"especializacion">>, <<"especialista">> }

PosgradoKeywords ==
    { <<"posgraduado">>, <<"posgraduada">>, <<"pos", "graduado">>,
      <<"pos", "graduada">>, <<"posgrado">>, <<"pos", "grado">> }

ProfesoradoKeywords ==
    { <<"profesorado">>, <<"profesor", "en">>,
      <<"profesor", "universitario">> }

\* The title alternatives of RE_ENTRY_START.
EntryStartKeywords ==
    DoctoradoKeywords \cup MaestriaKeywords \cup EspecializacionKeywords
        \cup ProfesoradoKeywords \cup GradoKeywords

\* [-•·*]; the inputs use the hyphen, the middle dot and the asterisk.
Bullets == {"-", "·", "*"}

\* RE_ENTRY_START.search(line): an optional bullet, then a title keyword,
\* at the start of the line.
RE_ENTRY_START(line) ==
    \/ StartsWith(EntryStartKeywords, line)
    \/ /\ line # <<>>
       /\ Head(line) \in Bullets
       /\ StartsWith(EntryStartKeywords, Tail(line))

\* RE_POSDOC_ENTRY begins at a line whose first word is one of these.
PosdocKeywords == { <<"posdoctorado">>, <<"postdoctorado">> }

(***************************************************************************)
(* split_entries (app.py 200-227).                                         *)
(***************************************************************************)
\* The line break, when a text is handled as one run of tokens.
NL == "\n"

RECURSIVE JoinLines(_)
\* "\n".join(lines) as tokens.
JoinLines(lines) ==
    IF lines = <<>> THEN <<>>
    ELSE IF Len(lines) = 1 THEN Head(lines)
    ELSE Head(lines) \o <<NL>> \o JoinLines(Tail(lines))

RECURSIVE SplitTokens(_, _)
\* text.split("\n") of a run of tokens; cur is the line being read.
SplitTokens(tokens, cur) ==
    IF tokens = <<>> THEN <<cur>>
    ELSE IF Head(tokens) = NL THEN <<cur>> \o SplitTokens(Tail(tokens), <<>>)
    ELSE SplitTokens(Tail(tokens), Append(cur, Head(tokens)))

RECURSIVE StripLines(_)
\* str.strip() of a text, seen on its lines: no empty first or last line.
StripLines(lines) ==
    IF lines = <<>> THEN <<>>
    ELSE IF Head(lines) = <<>> THEN StripLines(Tail(lines))
    ELSE IF lines[Len(lines)] = <<>> THEN StripLines(SubSeq(lines, 1, Len(lines) - 1))
    ELSE lines

\* Line 204: empty lines and the literal "null" are dropped.
KeptLine(l) == l # <<>> /\ ~(Len(l) = 1 /\ Lower(l[1]) = "null")

RECURSIVE SplitLoopEveryLine(_, _, _)
\* The loop with a cut before every line, title-start or not.
SplitLoopEveryLine(lines, out, buf) ==
    IF lines = <<>> THEN (IF buf # <<>> THEN Append(out, buf) ELSE out)
    ELSE IF buf # <<>>
         THEN SplitLoopEveryLine(Tail(lines), Append(out, buf), <<Head(lines)>>)
         ELSE SplitLoopEveryLine(Tail(lines), out, Append(buf, Head(lines)))

RECURSIVE SplitLoop(_, _, _)
\* Lines 206-216: a title-start line closes the open buffer, if there is one.
SplitLoop(lines, out, buf) ==
    IF lines = <<>> THEN (IF buf # <<>> THEN Append(out, buf) ELSE out)
    ELSE IF RE_ENTRY_START(Head(lines)) /\ buf # <<>>
         THEN SplitLoop(Tail(lines), Append(out, buf), <<Head(lines)>>)
         ELSE SplitLoop(Tail(lines), out, Append(buf, Head(lines)))

\* Lines 220-222: the keywords of the fallback split.  They carry no leading
\* \b, so they also match as the tail of a longer word.
FallbackKeywords ==
    { <<"doctorado">>, <<"maestría">>, <<"maestria">>, <<"especialización">>,
      <<"especializacion">>, <<"licenciatura">>, <<"licenciado">>,
      <<"licenciada">>, <<"licenciados">>, <<"licenciadas">>,
      <<"técnica", "universitaria">>, <<"tecnica", "universitaria">>,
      <<"tecnicatura">>, <<"profesorado">>,
      <<"profesor", "universitario">> }

\* The words of the inputs that end in a fallback keyword, cut where the
\* lookahead matches inside them.
SuffixCut(w) ==
    IF w = "Posdoctorado" THEN <<"Pos", "doctorado">>
    ELSE IF w = "postdoctorado" THEN <<"post", "doctorado">>
    ELSE <<w>>

RECURSIVE CutWords(_)
CutWords(tokens) ==
    IF tokens = <<>> THEN <<>> ELSE SuffixCut(Head(tokens)) \o CutWords(Tail(tokens))

\* The words of a run of tokens (line breaks left out).
WordsOf(tokens) == SelectSeq(tokens, LAMBDA t : t # NL)

RECURSIVE FallbackCut(_, _, _)
\* re.split on the lookahead: a new part begins before every keyword.
\* Python keeps the empty part before a keyword at position 0; line 225
\* drops it, as cur = <<>> does here.
FallbackCut(tokens, out, cur) ==
    IF tokens = <<>> THEN Append(out, cur)
    ELSE IF Head(tokens) # NL /\ StartsWith(FallbackKeywords, WordsOf(tokens))
         THEN FallbackCut(Tail(tokens), Append(out, cur), <<Head(tokens)>>)
         ELSE FallbackCut(Tail(tokens), out, Append(cur, Head(tokens)))

\* Lines 219-225.
FallbackThreshold == 1500

FallbackSplit(entry) ==
    LET parts == FallbackCut(CutWords(JoinLines(entry)), <<>>, <<>>)
        stripped == [k \in 1..Len(parts) |-> StripLines(SplitTokens(parts[k], <<>>))]
    IN  SelectSeq(stripped, LAMBDA e : e # <<>>)

\* split_entries(block): an entry is the sequence of its lines.
split_entries(block) ==
    IF block = <<>> THEN <<>>
    ELSE LET lines == SelectSeq(block, KeptLine)
             found == SplitLoop(lines, <<>>, <<>>)
         IN  IF Len(found) = 1 /\ TextLen(found[1]) > FallbackThreshold
             THEN FallbackSplit(found[1])
             ELSE found

(***************************************************************************)
(* Completion, dedup key and type of one entry (app.py 229-298).           *)
(***************************************************************************)
\* entry_is_completed with the in-progress test left out.
entry_is_completed_ignoring_progress(entry) ==
    LET ws == Flatten(entry)
    IN  \/ RE_FINISH_YEAR(ws)
        \/ Search(RE_SITUACION_COMPLETO, ws)
        \/ Search(RE_COMPLETION_CUES, ws)

\* entry_is_completed that also takes a closed range of years as evidence.
entry_is_completed_with_ranges(entry) ==
    LET ws == Flatten(entry)
    IN  /\ ~Search(RE_IN_PROGRESS, ws)
        /\ \/ RE_FINISH_YEAR(ws)
           \/ Search(RE_SITUACION_COMPLETO, ws)
           \/ Search(RE_COMPLETION_CUES, ws)
           \/ \E k \in 1..(Len(ws) - 2) :
                 ws[k] \in YearWords /\ ws[k + 1] = "-" /\ ws[k + 2] \in YearWords

\* entry_is_completed that also accepts an entry without any marker.
entry_is_completed_by_default(entry) ==
    ~Search(RE_IN_PROGRESS, Flatten(entry))

\* Lines 229-241.
entry_is_completed(entry) ==
    LET ws == Flatten(entry)
    IN  IF Search(RE_IN_PROGRESS, ws) THEN FALSE
        ELSE IF RE_FINISH_YEAR(ws) THEN TRUE
        ELSE IF Search(RE_SITUACION_COMPLETO, ws) THEN TRUE
        ELSE IF Search(RE_COMPLETION_CUES, ws) THEN TRUE
        ELSE FALSE

\* The least element of a non-empty set of positions.
Min(S) == CHOOSE k \in S : \A j \in S : k <= j

\* Lines 243-251; a text of zero or one word.
get_finish_token(entry) ==
    LET ws == Flatten(entry)
    IN  IF RE_FINISH_YEAR(ws) THEN <<ws[Min(FinishYearAt(ws))]>>
        ELSE IF Search(RE_SITUACION_COMPLETO, ws) THEN <<"COMPLETO">>
        ELSE IF Search(RE_COMPLETION_CUES, ws) THEN <<"FINALIZADO">>
        ELSE <<>>

\* Lines 253-259: the first line that is not empty and not "null".
get_first_line_title(entry) ==
    LET lines == SelectSeq(entry, LAMBDA l : l # <<>>)
        real == SelectSeq(lines, LAMBDA l : ~(Len(l) = 1 /\ Lower(l[1]) = "null"))
    IN  IF real # <<>> THEN real[1]
        ELSE IF lines # <<>> THEN lines[1]
        ELSE <<>>

InstitutionWords ==
    { <<"universidad">>, <<"facultad">>, <<"instituto">>, <<"sede">>, <<"conicet">> }

InstitutionLines == 10

\* Lines 261-266: the first of the first ten lines that names an institution.
get_institution_hint(entry) ==
    LET lines == SelectSeq(entry, LAMBDA l : l # <<>>)
        first == SubSeq(lines, 1, IF Len(lines) < InstitutionLines
                                  THEN Len(lines) ELSE InstitutionLines)
        hits == { k \in 1..Len(first) : Search(InstitutionWords, first[k]) }
    IN  IF hits # {} THEN first[Min(hits)] ELSE <<>>

\* The quote characters line 271 removes, when they stand as words of their
\* own; the inputs use the apostrophe and the acute accent.
QuoteWords == {"'", "´"}

\* Lines 268-272: lower case, single spaces, quote characters removed.
\* The words of a line are its text up to white space already.
norm_key(s) ==
    LET lowered == [k \in 1..Len(s) |-> Lower(s[k])]
    IN  SelectSeq(lowered, LAMBDA w : w \notin QuoteWords)

\* classify_entry with the undergraduate nouns tested first.
classify_entry_grado_first(entry) ==
    LET ws == Flatten(entry)
    IN  IF Search(GradoKeywords, ws) THEN "grado"
        ELSE IF Search(DoctoradoKeywords, ws) THEN "doctorado"
        ELSE IF Search(MaestriaKeywords, ws) THEN "maestria"
        ELSE IF Search(EspecializacionKeywords, ws) THEN "especializacion"
        ELSE IF Search(PosgradoKeywords, ws) THEN "otro"
        ELSE IF Search(ProfesoradoKeywords, ws) THEN "profesorado"
        ELSE "otro"

\* Lines 274-298.
classify_entry(entry) ==
    LET ws == Flatten(entry)
    IN  IF Search(DoctoradoKeywords, ws) THEN "doctorado"
        ELSE IF Search(MaestriaKeywords, ws) THEN "maestria"
        ELSE IF Search(EspecializacionKeywords, ws) THEN "especializacion"
        ELSE IF Search(PosgradoKeywords, ws) THEN "otro"
        ELSE IF Search(ProfesoradoKeywords, ws) THEN "profesorado"
        ELSE IF Search(GradoKeywords, ws) THEN "grado"
        ELSE "otro"

(***************************************************************************)
(* count_posdoc_explicit (app.py 198, 300-322).                            *)
(***************************************************************************)
PosdocWindow == 1600
PosdocKeyLen == 400

RECURSIVE TakeWords(_, _)
\* The whole words among the first n characters of a run of words.
TakeWords(ws, n) ==
    IF ws = <<>> \/ WordLen(Head(ws)) > n THEN <<>>
    ELSE <<Head(ws)>> \o TakeWords(Tail(ws), n - WordLen(Head(ws)) - 1)

RECURSIVE TakeChars(_, _, _, _)
\* The first n characters of the text that begins at line k: the lines they
\* cover (the last one cut to its whole words) and the first line of which
\* no character was taken.
TakeChars(lines, k, n, acc) ==
    IF k > Len(lines) THEN [chunk |-> acc, next |-> k]
    ELSE LET len == WordsLen(lines[k])
         IN  IF len <= n
             THEN IF n - len >= 1
                  THEN TakeChars(lines, k + 1, n - len - 1, Append(acc, lines[k]))
                  ELSE [chunk |-> Append(acc, lines[k]), next |-> k + 1]
             ELSE [chunk |-> Append(acc, TakeWords(lines[k], n)),
                   next |-> IF n = 0 THEN k ELSE k + 1]

RECURSIVE PosdocChunks(_, _, _)
\* RE_POSDOC_ENTRY.finditer(block): each match begins at the next line whose
\* first word is Posdoctorado/Postdoctorado and runs for up to 1600
\* characters, over line breaks and over whatever follows.
PosdocChunks(block, k, acc) ==
    LET starts == { j \in k..Len(block) : StartsWith(PosdocKeywords, block[j]) }
    IN  IF starts = {} THEN acc
        ELSE LET t == TakeChars(block, Min(starts), PosdocWindow, <<>>)
             IN  PosdocChunks(block, t.next, Append(acc, t.chunk))

count_posdoc_explicit(block) ==
    IF block = <<>> THEN 0
    ELSE LET chunks == PosdocChunks(block, 1, <<>>)
             matches == { k \in 1..Len(chunks) :
                            /\ ~Search(RE_BECARIO_CONTEXT, Flatten(chunks[k]))
                            /\ entry_is_completed(chunks[k]) }
         IN  Cardinality({ norm_key(TakeWords(Flatten(chunks[k]), PosdocKeyLen)) :
                             k \in matches })

(***************************************************************************)
(* counts_from_formacion (app.py 324-358).                                 *)
(***************************************************************************)
LoopTypes == {"doctorado", "maestria", "especializacion", "grado", "profesorado"}
CountKeys == LoopTypes \cup {"posdoc"}

\* Lines 328-337: the dictionary before the loop.
InitialCounts(block) ==
    [t \in CountKeys |-> IF t = "posdoc" THEN count_posdoc_explicit(block) ELSE 0]

\* Line 351.
DedupKey(e) ==
    <<classify_entry(e), norm_key(get_first_line_title(e)),
      norm_key(get_institution_hint(e)), norm_key(get_finish_token(e))>>

\* The loop body without the test of the seen set (lines 352-353).
LoopBodyNoDedup(st, e) ==
    LET tipo == classify_entry(e)
    IN  IF tipo \notin CountKeys \/ tipo = "posdoc" THEN st
        ELSE IF ~entry_is_completed(e) THEN st
        ELSE [seen |-> st.seen \cup {DedupKey(e)},
              counts |-> [st.counts EXCEPT ![tipo] = @ + 1]]

\* Lines 340-356: one pass of the loop body over entry e.
LoopBody(st, e) ==
    LET tipo == classify_entry(e)
    IN  IF tipo \notin CountKeys \/ tipo = "posdoc" THEN st
        ELSE IF ~entry_is_completed(e) THEN st
        ELSE IF DedupKey(e) \in st.seen THEN st
        ELSE [seen |-> st.seen \cup {DedupKey(e)},
              counts |-> [st.counts EXCEPT ![tipo] = @ + 1]]

RECURSIVE LoopFrom(_, _)
LoopFrom(st, es) ==
    IF es = <<>> THEN st ELSE LoopFrom(LoopBody(st, Head(es)), Tail(es))

\* The value counts_from_formacion(block) returns.
counts_from_formacion(block) ==
    LoopFrom([seen |-> {}, counts |-> InitialCounts(block)],
             split_entries(block)).counts

(***************************************************************************)
(* normalize_spaces (app.py 94-98) on characters.                          *)
(***************************************************************************)
SP == " "
TAB == "\t"
NBSP == "nbsp"        \* U+00A0
LF == "\n"
CR == "\r"            \* white space that only str.strip() touches
LETTER == "a"         \* any character that is not white space
Chars == {SP, TAB, NBSP, LF, CR, LETTER}

\* Line 95: s.replace(" ", " ").
ReplaceNbsp(s) == [k \in 1..Len(s) |-> IF s[k] = NBSP THEN SP ELSE s[k]]

RECURSIVE CollapseBlanks(_)
\* Line 96: re.sub(r"[ \t]+", " ", s).
CollapseBlanks(s) ==
    IF s = <<>> THEN <<>>
    ELSE IF Head(s) \in {SP, TAB}
         THEN IF Len(s) > 1 /\ s[2] \in {SP, TAB}
              THEN CollapseBlanks(Tail(s))
              ELSE <<SP>> \o CollapseBlanks(Tail(s))
         ELSE <<Head(s)>> \o CollapseBlanks(Tail(s))

RECURSIVE CollapseNewlines(_)
\* Line 97: re.sub(r"\n{3,}", "\n\n", s).
CollapseNewlines(s) ==
    IF s = <<>> THEN <<>>
    ELSE IF Len(s) >= 3 /\ s[1] = LF /\ s[2] = LF /\ s[3] = LF
         THEN CollapseNewlines(Tail(s))
         ELSE <<Head(s)>> \o CollapseNewlines(Tail(s))

\* str.isspace() of one character.  U+00A0 is white space for str.strip().
IsSpace(c) == c \in {SP, TAB, NBSP, LF, CR}

RECURSIVE Strip(_)
\* Line 98: s.strip().
Strip(s) ==
    IF s = <<>> THEN <<>>
    ELSE IF IsSpace(Head(s)) THEN Strip(Tail(s))
    ELSE IF IsSpace(s[Len(s)]) THEN Strip(SubSeq(s, 1, Len(s) - 1))
    ELSE s

\* normalize_spaces with line 95 moved after line 96.
normalize_spaces_replace_late(s) ==
    Strip(CollapseNewlines(ReplaceNbsp(CollapseBlanks(s))))

normalize_spaces(s) == Strip(CollapseNewlines(CollapseBlanks(ReplaceNbsp(s))))

(***************************************************************************)
(* normalize_spaces on lines of words, and the cut of the section          *)
(* (app.py 116-153).                                                       *)
(***************************************************************************)
RECURSIVE CollapseEmptyLines(_)
\* Line 97 seen on lines: three or more line breaks in a row are two or more
\* empty lines in a row, of which one stays.
CollapseEmptyLines(lines) ==
    IF lines = <<>> THEN <<>>
    ELSE IF Len(lines) >= 2 /\ lines[1] = <<>> /\ lines[2] = <<>>
         THEN CollapseEmptyLines(Tail(lines))
         ELSE <<Head(lines)>> \o CollapseEmptyLines(Tail(lines))

\* normalize_spaces of a text of lines: the blanks between words are single
\* already, so lines 95-96 change nothing.
normalize_lines(lines) == StripLines(CollapseEmptyLines(lines))

\* FORMACION_HEADERS[0..1]: the two words on one line, one blank apart.
HeaderWords ==
    { <<f, a>> : f \in {"formación", "formacion"},
                 a \in {"académica", "academica"} }

\* NEXT_SECTION_MARKERS, each after a line break and optional white space.
NEXT_SECTION_MARKERS ==
    { <<"formación", "de", "recursos", "humanos">>,
      <<"formacion", "de", "recursos", "humanos">>,
      <<"recursos", "humanos">>, <<"rrhh">>, <<"antecedentes">>,
      <<"producción">>, <<"produccion">>, <<"publicaciones">>,
      <<"actividades">>, <<"experiencia">>, <<"cargos">> }

\* Positions of tokens where a header begins with both words on one line
\* (patterns 0 and 1), and where it begins with white space of any kind
\* between them (patterns 2 to 4), with the position where the match ends.
HeaderSameLine(tokens) ==
    { k \in 1..(Len(tokens) - 1) :
        <<Lower(tokens[k]), Lower(tokens[k + 1])>> \in HeaderWords }

HeaderAnySpace(tokens) ==
    { k \in 1..Len(tokens) :
        /\ tokens[k] # NL
        /\ StartsWith(HeaderWords, WordsOf(SubSeq(tokens, k, Len(tokens)))) }

\* m.end() of the header matched at k: the position of its second word.
HeaderEnd(tokens, k) ==
    Min({ j \in (k + 1)..Len(tokens) : tokens[j] # NL })

\* Positions of the line breaks at which a next-section marker matches.
MarkerAt(tail) ==
    { q \in 1..Len(tail) :
        /\ tail[q] = NL
        /\ StartsWith(NEXT_SECTION_MARKERS, WordsOf(SubSeq(tail, q, Len(tail)))) }

\* Lines 136-153.
extract_formacion_academica_block(full_text) ==
    LET tokens == JoinLines(normalize_lines(full_text))
        same == HeaderSameLine(tokens)
        any == HeaderAnySpace(tokens)
    IN  IF same = {} /\ any = {} THEN <<>>
        ELSE LET k == IF same # {} THEN Min(same) ELSE Min(any)
                 tail == SubSeq(tokens, HeaderEnd(tokens, k) + 1, Len(tokens))
                 marks == MarkerAt(tail)
                 end_idx == IF marks = {} THEN Len(tail) ELSE Min(marks) - 1
             IN  StripLines(SplitTokens(SubSeq(tail, 1, end_idx), <<>>))

(***************************************************************************)
(* The inputs: lines of CVs.                                               *)
(***************************************************************************)
T_Doctorado == <<"Doctorado", "en", "Biología">>
T_AbogadoDoctor == <<"Abogado", "y", "Doctor", "en", "Derecho">>
T_Maestria == <<"Maestría", "en", "Educación">>
T_Especialista == <<"Especialista", "en", "Docencia">>
T_Profesor == <<"Profesor", "en", "Historia">>
T_Abogado == <<"Abogado">>
T_ABOGADO == <<"ABOGADO">>
T_Ingeniero == <<"Ingeniero", "civil">>
T_Posdoctorado == <<"Posdoctorado", "en", "Química">>
T_Postdoctorado == <<"postdoctorado", "en", "Física">>
L_Posgrado == <<"Posgrado", "en", "Gestión">>
L_Curso == <<"Curso", "de", "Inglés">>
L_Fin2015 == <<"Año", "de", "finalización", ":", "2015">>
L_Fin2010 == <<"Año", "de", "finalización", ":", "2010">>
L_Situacion == <<"Situación", "del", "nivel", ":", "Completo">>
L_Egresado == <<"Egresado">>
L_Range == <<"2010", "-", "2015">>
L_Open == <<"2019", "-", "Actualidad">>
L_EnCurso == <<"En", "curso">>
L_Universidad == <<"Universidad", "Nacional", "de", "Cuyo">>
L_Becario == <<"Becario", "posdoctoral">>
L_Long == <<LongText>>
L_Header == <<"FORMACION", "ACADEMICA">>
L_Datos == <<"DATOS", "personales">>
L_Antecedentes == <<"ANTECEDENTES">>
L_Proyectos == <<"PROYECTOS">>
L_Proyecto == <<"Proyecto", "Alfa">>
T_BulletMaestria == <<"-", "Maestría", "en", "Educación">>
L_TituloLicenciado == <<"Título", "de", "Licenciado">>
L_Null == <<"null">>
L_Empty == <<>>

\* Years of the one-line entries of the many-entries inputs.
TitleYears == <<"2001", "2002", "2003", "2004", "2005", "2006", "2007",
                "2008", "2009">>

T_Graduado(n) == <<"Abogado", "graduado", TitleYears[n]>>

MainLines ==
    { T_Doctorado, T_Abogado, L_Fin2015, L_Egresado, L_Range, L_Open,
      L_Universidad }

DedupLines ==
    { T_Abogado, T_ABOGADO, L_Fin2015, L_Fin2010, L_Egresado, L_Universidad }

ClassLines ==
    { T_Doctorado, T_AbogadoDoctor, T_Maestria, T_Especialista, T_Profesor,
      T_Abogado, T_Ingeniero, L_Posgrado, L_Curso, L_Fin2015 }

PosdocLines ==
    { T_Posdoctorado, T_Postdoctorado, L_Fin2015, L_Becario, L_Open, L_Long }

IsoLines == { T_Doctorado, L_Fin2015, L_Situacion }

SplitLines ==
    { T_Doctorado, T_BulletMaestria, L_TituloLicenciado, L_Null, L_Empty,
      L_Long }

NeighbourLines == { T_Posdoctorado, T_Doctorado, L_Fin2015, L_Open, L_Becario }

SeqsUpTo(S, n) == UNION { [1..k -> S] : k \in 0..n }

\* A CV whose only section is the Formation section with the given body.
FormationOnly(body) ==
    [before |-> <<>>, formation |-> <<L_Header>> \o body, after |-> <<>>]

RECURSIVE Pick(_, _)
\* The one-line entries T_Graduado(n), n in S, in increasing order.
Pick(S, n) ==
    IF n > MaxTitles THEN <<>>
    ELSE (IF n \in S THEN <<T_Graduado(n)>> ELSE <<>>) \o Pick(S, n + 1)

MainDocs == { FormationOnly(b) : b \in SeqsUpTo(MainLines, MaxLines) }
DedupDocs == { FormationOnly(b) : b \in SeqsUpTo(DedupLines, MaxDedupLines) }
ClassDocs == { FormationOnly(b) : b \in SeqsUpTo(ClassLines, MaxClassLines) }
PosdocDocs == { FormationOnly(b) : b \in SeqsUpTo(PosdocLines, MaxPosdocLines) }
ManyDocs == { FormationOnly(Pick(S, 1)) : S \in SUBSET (1..MaxTitles) }
SplitDocs == { FormationOnly(b) : b \in SeqsUpTo(SplitLines, MaxSplitLines) }
NeighbourDocs ==
    { FormationOnly(b) : b \in SeqsUpTo(NeighbourLines, MaxNeighbourLines) }

IsoDocs ==
    { [before |-> b, formation |-> <<L_Header>> \o f, after |-> a] :
        b \in { <<>>, <<L_Datos>> },
        f \in SeqsUpTo(IsoLines, MaxIsoLines),
        a \in { <<>> } \cup { <<h, x>> : h \in { L_Antecedentes, L_Proyectos },
                                          x \in { L_Proyecto, L_EnCurso } } }

\* The text extracted from a CV (extract_text_docx / extract_text_pdf).
DocText(u) == u.before \o u.formation \o u.after

Texts == SeqsUpTo(Chars, MaxChars)

(***************************************************************************)
(* The script run on an upload (app.py 365-377).                           *)
(***************************************************************************)
ZeroCounts == [t \in CountKeys |-> 0]

InitRun(docs) ==
    /\ upload \in docs
    /\ other = upload
    /\ raw_text = DocText(upload)
    /\ pc = "uploaded"
    /\ form_block = <<>>
    /\ entries = <<>>
    /\ idx = 1
    /\ seen = {}
    /\ counts = ZeroCounts
    /\ chars = <<>>
    /\ txt = <<>>

Init == InitRun(MainDocs)
InitDedup == InitRun(DedupDocs)
InitClass == InitRun(ClassDocs)
InitPosdoc == InitRun(PosdocDocs)
InitMany == InitRun(ManyDocs)
InitSplit == InitRun(SplitDocs)
InitNeighbour == InitRun(NeighbourDocs)

InitIso ==
    /\ upload \in IsoDocs
    /\ other \in { d \in IsoDocs : d.formation = upload.formation }
    /\ raw_text = DocText(upload)
    /\ pc = "uploaded"
    /\ form_block = <<>>
    /\ entries = <<>>
    /\ idx = 1
    /\ seen = {}
    /\ counts = ZeroCounts
    /\ chars = <<>>
    /\ txt = <<>>

InitNorm ==
    /\ chars \in Texts
    /\ txt = <<>>
    /\ pc = "uploaded"
    /\ upload = FormationOnly(<<>>)
    /\ other = upload
    /\ raw_text = <<>>
    /\ form_block = <<>>
    /\ entries = <<>>
    /\ idx = 1
    /\ seen = {}
    /\ counts = ZeroCounts

\* Line 373: raw_text = normalize_spaces(raw_text).
NormalizeUpload ==
    /\ pc = "uploaded"
    /\ raw_text' = normalize_lines(raw_text)
    /\ pc' = "normalized"
    /\ UNCHANGED <<upload, form_block, entries, idx, seen, counts, other, chars, txt>>

\* Line 376: form_block = extract_formacion_academica_block(raw_text).
ExtractBlock ==
    /\ pc = "normalized"
    /\ form_block' = extract_formacion_academica_block(raw_text)
    /\ pc' = "extracted"
    /\ UNCHANGED <<upload, raw_text, entries, idx, seen, counts, other, chars, txt>>

\* Lines 325-337: counts_from_formacion up to its loop.
CountsBegin ==
    /\ pc = "extracted"
    /\ entries' = split_entries(form_block)
    /\ seen' = {}
    /\ counts' = InitialCounts(form_block)
    /\ idx' = 1
    /\ pc' = "loop"
    /\ UNCHANGED <<upload, raw_text, form_block, other, chars, txt>>

\* Lines 339-356: one iteration of the loop.
LoopEntry ==
    /\ pc = "loop"
    /\ idx <= Len(entries)
    /\ LET st == LoopBody([seen |-> seen, counts |-> counts], entries[idx])
       IN  /\ seen' = st.seen
           /\ counts' = st.counts
    /\ idx' = idx + 1
    /\ UNCHANGED <<pc, upload, raw_text, form_block, entries, other, chars, txt>>

\* Line 358: return counts.
CountsReturn ==
    /\ pc = "loop"
    /\ idx > Len(entries)
    /\ pc' = "done"
    /\ UNCHANGED <<upload, raw_text, form_block, entries, idx, seen, counts, other, chars, txt>>

Next == NormalizeUpload \/ ExtractBlock \/ CountsBegin \/ LoopEntry \/ CountsReturn

\* Line 373 on characters.
NormalizeUploadChars ==
    /\ pc = "uploaded"
    /\ chars' = normalize_spaces(chars)
    /\ pc' = "normalized"
    /\ UNCHANGED <<upload, raw_text, form_block, entries, idx, seen, counts, other, txt>>

\* Line 137 on characters: the extractor normalises the text it is given,
\* which line 373 has normalised once already.
NormalizeInExtract ==
    /\ pc = "normalized"
    /\ txt' = normalize_spaces(chars)
    /\ pc' = "extracting"
    /\ UNCHANGED <<upload, raw_text, form_block, entries, idx, seen, counts, other, chars>>

NextNorm == NormalizeUploadChars \/ NormalizeInExtract

Spec == Init /\ [][Next]_vars
SpecDedup == InitDedup /\ [][Next]_vars
SpecClass == InitClass /\ [][Next]_vars
SpecPosdoc == InitPosdoc /\ [][Next]_vars
SpecMany == InitMany /\ [][Next]_vars
SpecIso == InitIso /\ [][Next]_vars
SpecNorm == InitNorm /\ [][NextNorm]_vars
SpecSplit == InitSplit /\ [][Next]_vars
SpecNeighbour == InitNeighbour /\ [][Next]_vars

(***************************************************************************)
(* Evidence an entry carries, as the properties below name it.             *)
(***************************************************************************)
HasInProgressMarker(e) == Search(RE_IN_PROGRESS, Flatten(e))
HasFinishYearField(e) == RE_FINISH_YEAR(Flatten(e))
HasSituacionCompleto(e) == Search(RE_SITUACION_COMPLETO, Flatten(e))
HasCompletionWord(e) == Search(RE_COMPLETION_CUES, Flatten(e))

HasPositiveMarker(e) ==
    HasFinishYearField(e) \/ HasSituacionCompleto(e) \/ HasCompletionWord(e)

\* A date range whose two ends are years or month/years.
HasClosedRange(e) ==
    LET ws == Flatten(e)
    IN  \E k \in 1..(Len(ws) - 2) :
            ws[k] \in YearWords /\ ws[k + 1] = "-" /\ ws[k + 2] \in YearWords

Has(keywords, e) == Search(keywords, Flatten(e))

\* The entries the loop has been through.
Processed == 1..(idx - 1)

(***************************************************************************)
(* C1: an entry that holds an in-progress marker together with a           *)
(* completion-year field is not completed, and the loop iteration over it  *)
(* leaves every count of the dictionary as it was.                         *)
(***************************************************************************)
C1_NegativeOverridesPositive ==
    [][ (/\ pc = "loop"
         /\ idx <= Len(entries)
         /\ HasInProgressMarker(entries[idx])
         /\ HasFinishYearField(entries[idx]))
        => (~entry_is_completed(entries[idx]) /\ counts' = counts) ]_vars

C1_Witness ==
    /\ pc = "done"
    /\ \E j \in Processed :
          /\ HasInProgressMarker(entries[j])
          /\ HasFinishYearField(entries[j])
          /\ classify_entry(entries[j]) = "doctorado"
    /\ counts = ZeroCounts

(***************************************************************************)
(* C2: a loop iteration adds to a count only for an entry of one of the    *)
(* five types that has no in-progress marker and at least one positive     *)
(* finalization marker, and then adds 1 to the count of its type; an entry *)
(* with neither kind of marker adds to no count.                           *)
(***************************************************************************)
C2_OnlyFinalizedCounted ==
    [][ (pc = "loop" /\ idx <= Len(entries)) =>
          LET e == entries[idx]
          IN  /\ (counts' # counts) =>
                    /\ ~HasInProgressMarker(e)
                    /\ HasPositiveMarker(e)
                    /\ classify_entry(e) \in LoopTypes
                    /\ counts' = [counts EXCEPT ![classify_entry(e)] = @ + 1]
              /\ (~HasInProgressMarker(e) /\ ~HasPositiveMarker(e))
                    => counts' = counts ]_vars

C2_Witness ==
    /\ pc = "done"
    /\ \E j \in Processed, k \in Processed :
          /\ classify_entry(entries[j]) = "doctorado"
          /\ HasClosedRange(entries[j])
          /\ ~HasInProgressMarker(entries[j])
          /\ ~HasPositiveMarker(entries[j])
          /\ classify_entry(entries[k]) = "grado"
          /\ HasPositiveMarker(entries[k])
          /\ ~HasInProgressMarker(entries[k])
    /\ counts["doctorado"] = 0
    /\ counts["grado"] = 1

(***************************************************************************)
(* C3: each of the five counts is at most the number of distinct dedup     *)
(* keys (type, title, institution hint, completion token) of that type     *)
(* among the completed entries gone through, so two completed entries      *)
(* with one key count once.                                                *)
(***************************************************************************)
KeysOfType(t) ==
    { DedupKey(entries[j]) :
        j \in { i \in Processed : /\ classify_entry(entries[i]) = t
                                  /\ ~HasInProgressMarker(entries[i])
                                  /\ HasPositiveMarker(entries[i]) } }

C3_DedupInvariant ==
    \A t \in LoopTypes : counts[t] <= Cardinality(KeysOfType(t))

C3_Witness ==
    /\ pc = "done"
    /\ \E i \in Processed, j \in Processed :
          /\ i < j
          /\ entries[i] # entries[j]
          /\ classify_entry(entries[i]) = "grado"
          /\ entry_is_completed(entries[i])
          /\ entry_is_completed(entries[j])
          /\ DedupKey(entries[i]) = DedupKey(entries[j])
    /\ counts["grado"] = 1

(***************************************************************************)
(* C4 as stated: the type of an entry is that of the first rule, in the    *)
(* order doctorate, master's, specialization, teaching credential,         *)
(* undergraduate degree, whose keyword occurs in it, and otro if none      *)
(* does.                                                                   *)
(***************************************************************************)
StatedType(e) ==
    IF Has(DoctoradoKeywords, e) THEN "doctorado"
    ELSE IF Has(MaestriaKeywords, e) THEN "maestria"
    ELSE IF Has(EspecializacionKeywords, e) THEN "especializacion"
    ELSE IF Has(ProfesoradoKeywords, e) THEN "profesorado"
    ELSE IF Has(GradoKeywords, e) THEN "grado"
    ELSE "otro"

C4_StatedPriority ==
    \A j \in 1..Len(entries) : classify_entry(entries[j]) = StatedType(entries[j])

(***************************************************************************)
(* C4 amended: a generic postgraduate keyword (Posgrado, Pos grado,        *)
(* Posgraduado/a) ranks between specialization and teaching credential     *)
(* and makes the entry otro.  Each type is returned exactly when its       *)
(* keyword occurs and no keyword of a higher rank does; an entry of type   *)
(* otro is never counted.                                                  *)
(***************************************************************************)
RankedCondition(t, e) ==
    LET doc == Has(DoctoradoKeywords, e)
        mae == Has(MaestriaKeywords, e)
        esp == Has(EspecializacionKeywords, e)
        pos == Has(PosgradoKeywords, e)
        pro == Has(ProfesoradoKeywords, e)
        gra == Has(GradoKeywords, e)
    IN  CASE t = "doctorado" -> doc
          [] t = "maestria" -> ~doc /\ mae
          [] t = "especializacion" -> ~doc /\ ~mae /\ esp
          [] t = "profesorado" -> ~doc /\ ~mae /\ ~esp /\ ~pos /\ pro
          [] t = "grado" -> ~doc /\ ~mae /\ ~esp /\ ~pos /\ ~pro /\ gra

C4_PriorityWithPosgrado ==
    /\ \A j \in 1..Len(entries) :
          /\ classify_entry(entries[j]) \in LoopTypes \cup {"otro"}
          /\ \A t \in LoopTypes :
                (classify_entry(entries[j]) = t) <=> RankedCondition(t, entries[j])
    /\ \A t \in LoopTypes :
          counts[t] <= Cardinality({ j \in Processed : RankedCondition(t, entries[j]) })

C4_Witness ==
    /\ pc = "done"
    /\ \E i \in Processed, j \in Processed :
          /\ Has(DoctoradoKeywords, entries[i])
          /\ Has(GradoKeywords, entries[i])
          /\ classify_entry(entries[i]) = "doctorado"
          /\ Has(ProfesoradoKeywords, entries[j])
          /\ Has(PosgradoKeywords, entries[j])
          /\ classify_entry(entries[j]) = "otro"

(***************************************************************************)
(* C5 as stated: an entry of one of the five types that holds a closed     *)
(* date range and no in-progress marker is completed and is counted.       *)
(***************************************************************************)
C5_ClosedRangeIsEvidence ==
    \A j \in 1..Len(entries) :
        (/\ classify_entry(entries[j]) \in LoopTypes
         /\ HasClosedRange(entries[j])
         /\ ~HasInProgressMarker(entries[j]))
        => /\ entry_is_completed(entries[j])
           /\ j \in Processed => DedupKey(entries[j]) \in seen

(***************************************************************************)
(* C5 amended: a closed date range is not finalization evidence.  An entry *)
(* of one of the five types that holds a closed date range and no          *)
(* completion-year field, no "Situación del nivel: Completo" field and no  *)
(* completion word is not completed and is not counted.                    *)
(***************************************************************************)
RangeOnly(e) ==
    /\ classify_entry(e) \in LoopTypes
    /\ HasClosedRange(e)
    /\ ~HasInProgressMarker(e)
    /\ ~HasPositiveMarker(e)

C5_ClosedRangeIsNotEvidence ==
    \A j \in 1..Len(entries) :
        RangeOnly(entries[j])
        => /\ ~entry_is_completed(entries[j])
           /\ DedupKey(entries[j]) \notin seen

C5_Witness ==
    /\ pc = "done"
    /\ Len(entries) = 1
    /\ RangeOnly(entries[1])
    /\ get_institution_hint(entries[1]) # <<>>
    /\ counts = ZeroCounts

(***************************************************************************)
(* C6: a doctorate, master's or specialization entry whose only positive   *)
(* evidence is a bare completion word is not completed and is not counted. *)
(***************************************************************************)
C6_BareWordOnlyForGrado ==
    \A j \in 1..Len(entries) :
        (/\ classify_entry(entries[j]) \in {"doctorado", "maestria", "especializacion"}
         /\ HasCompletionWord(entries[j])
         /\ ~HasFinishYearField(entries[j])
         /\ ~HasSituacionCompleto(entries[j])
         /\ ~HasClosedRange(entries[j]))
        => /\ ~entry_is_completed(entries[j])
           /\ DedupKey(entries[j]) \notin seen

(***************************************************************************)
(* C7: a Postdoctoral chunk that holds a supervisor/fellowship role token  *)
(* is never counted, and adding such a chunk to a block leaves the posdoc  *)
(* count as it was.                                                        *)
(***************************************************************************)
SupervisorChunk == <<T_Postdoctorado, L_Becario, L_Fin2015>>

C7_SupervisorChunkChangesNothing ==
    pc \in {"loop", "done"} =>
        /\ count_posdoc_explicit(SupervisorChunk) = 0
        /\ count_posdoc_explicit(form_block \o SupervisorChunk) = counts["posdoc"]

(***************************************************************************)
(* C8: two CVs with the same Academic Formation section, which differ only *)
(* in the text of other sections, get the same counts.                     *)
(***************************************************************************)
C8_SectionIsolation ==
    (pc = "done" /\ other.formation = upload.formation) =>
        counts = counts_from_formacion(
                    extract_formacion_academica_block(normalize_lines(DocText(other))))

(***************************************************************************)
(* C9: no count exceeds 6, however many distinct completed entries of one  *)
(* type the block holds.                                                   *)
(***************************************************************************)
C9_PerTypeCeiling ==
    pc = "done" => \A t \in CountKeys : counts[t] <= 6

(***************************************************************************)
(* C10: normalize_spaces is idempotent: the second normalisation of a text *)
(* (in the extractor) returns the text the first one (on upload) returned. *)
(***************************************************************************)
C10_NormalizeIdempotent ==
    /\ pc = "uploaded" =>
          normalize_spaces(normalize_spaces(chars)) = normalize_spaces(chars)
    /\ pc = "extracting" => txt = chars

C10_Witness ==
    /\ pc = "extracting"
    /\ txt = chars
    /\ Len(chars) = 4
    /\ chars[2] = SP
    /\ chars[3] = LF

(***************************************************************************)
(* C11: for a block that does not trigger the oversized-single-entry       *)
(* fallback, split_entries cuts exactly at title-start lines: the entries  *)
(* put end to end are the kept lines of the block (empty and "null" lines  *)
(* dropped) in order, an entry other than the first begins with a          *)
(* title-start line, no other line of an entry is a title-start line, no   *)
(* entry is empty, and an empty block yields zero entries.                 *)
(***************************************************************************)
\* An empty line or the placeholder "null" (compared as the code compares
\* it, after lower-casing).
Placeholder(l) == l = <<>> \/ (Len(l) = 1 /\ Lower(l[1]) = "null")

Kept == SelectSeq(form_block, LAMBDA l : ~Placeholder(l))

\* One oversized entry: no cut among the kept lines and more than 1500
\* characters.
TriggersFallback ==
    /\ Kept # <<>>
    /\ \A k \in 2..Len(Kept) : ~RE_ENTRY_START(Kept[k])
    /\ TextLen(Kept) > FallbackThreshold

C11_SplitAtTitleStarts ==
    (pc \in {"loop", "done"} /\ ~TriggersFallback) =>
        /\ Flatten(entries) = Kept
        /\ \A j \in 1..Len(entries) :
              /\ entries[j] # <<>>
              /\ \A k \in 2..Len(entries[j]) : ~RE_ENTRY_START(entries[j][k])
        /\ \A j \in 2..Len(entries) : RE_ENTRY_START(entries[j][1])
        /\ (form_block = <<>> => entries = <<>>)

\* A block with a dropped "null" line, cut into two entries before a bulleted
\* title, with a line that holds a title keyword away from its start left
\* inside the first entry.
C11_Witness ==
    /\ pc = "done"
    /\ ~TriggersFallback
    /\ form_block = <<T_Doctorado, L_Null, L_TituloLicenciado, T_BulletMaestria>>
    /\ entries = << <<T_Doctorado, L_TituloLicenciado>>, <<T_BulletMaestria>> >>

(***************************************************************************)
(* C12: the posdoc count of a block is the number of distinct entries that *)
(* begin with Posdoctorado/Postdoctorado, are Finalized on their own text  *)
(* (no in-progress marker, an explicit finalization marker) and carry no   *)
(* supervisor context; the text of neighbouring entries has no part in it. *)
(***************************************************************************)
PosdocEntries ==
    { j \in 1..Len(entries) :
        /\ StartsWith(PosdocKeywords, entries[j][1])
        /\ ~HasInProgressMarker(entries[j])
        /\ HasPositiveMarker(entries[j])
        /\ ~Search(RE_BECARIO_CONTEXT, Flatten(entries[j])) }

C12_PosdocPerEntry ==
    pc \in {"loop", "done"} =>
        counts["posdoc"] = Cardinality({ entries[j] : j \in PosdocEntries })

====
